---- MODULE Spec2Model ----
(***************************************************************************)
(* Model of the ZPL tokenizer (ZplTokenizer) and recursive-descent parser  *)
(* (ZplParser) of zombie-zpl/backend/src/parser/parser.ts.                 *)
(*                                                                         *)
(* A source string is a sequence of one-character strings.  Offsets are    *)
(* 0-based as in the code, so source[position] of the code is              *)
(* source[position + 1] here.  One action is one iteration (or the exit)   *)
(* of one loop of the code; pc names the loop the control is in.           *)
(* Arrays that the returned Document shares with the parser (errors,       *)
(* warnings) live in heap and are held by reference.                       *)
(***************************************************************************)
EXTENDS Integers, Sequences, FiniteSets, TLC

VARIABLES
    pc,         \* "idle" | "scan" | "cmdcode" | "params" | "param" | "comment" | "parse"
    source,     \* ZplTokenizer.source of the running (or last) call
    position,   \* ZplTokenizer.position
    line,       \* ZplTokenizer.line
    column,     \* ZplTokenizer.column
    tkTokens,   \* ZplTokenizer.tokens
    tkErrors,   \* ZplTokenizer.errors (reference into heap)
    startPos,   \* local startPos / paramStart of the tokenize* method running
    text,       \* local commandCode / parameter / comment of that method
    tokens,     \* ZplParser.tokens
    current,    \* ZplParser.current
    errors,     \* ZplParser.errors (reference into heap)
    warnings,   \* ZplParser.warnings (reference into heap)
    commands,   \* local commands of ZplParser.parse
    heap,       \* the arrays allocated so far, by reference
    docs,       \* the Documents returned to the caller, in call order
    seen,       \* what the caller read in each Document when it was returned
    instance    \* the ZplParser object the caller holds: 1, 2, ... by construction

vars == <<pc, source, position, line, column, tkTokens, tkErrors, startPos, text,
          tokens, current, errors, warnings, commands, heap, docs, seen, instance>>

tokenizerVars == <<source, position, line, column, tkTokens, tkErrors, startPos, text>>
parserVars    == <<tokens, current, errors, warnings, commands, instance>>

(***************************************************************************)
(* Bounds of the model.                                                    *)
(***************************************************************************)
MaxLen   == 3   \* longest source drawn from Alphabet
MaxCmds  == 2   \* most command texts concatenated into one source
MaxCalls == 2   \* parse calls made on the one parser instance

(***************************************************************************)
(* Characters.                                                             *)
(***************************************************************************)
UpperChars == {"A","B","C","D","E","F","G","H","I","J","K","L","M",
               "N","O","P","Q","R","S","T","U","V","W","X","Y","Z"}
DigitChars == {"0","1","2","3","4","5","6","7","8","9"}

\* /[A-Z0-9@]/.test(char)
isCommandChar(char) == char \in UpperChars \cup DigitChars \cup {"@"}

\* /[\s\t\r]/.test(char): \s covers blank, tab, CR, LF, FF
isWhitespace(char) == char \in {" ", "\t", "\r", "\n", "\f"}

Min(a, b) == IF a < b THEN a ELSE b

\* source.substring(position, position + offset)
peekChars(offset) ==
    SubSeq(source, position + 1, Min(position + offset, Len(source)))

\* mutant: the offset is taken from the column
getCurrentPositionFromColumn ==
    [line |-> line, column |-> column, offset |-> column - 1]

getCurrentPosition == [line |-> line, column |-> column, offset |-> position]

Token(type, value, pos, raw) ==
    [type |-> type, value |-> value, position |-> pos, raw |-> raw]

\* ZplTokenizer.addError: the error array after the push
tkAddError(message) ==
    [heap EXCEPT ![tkErrors] =
        Append(@, [message  |-> message,
                   position |-> getCurrentPosition,
                   severity |-> "ERROR",
                   code     |-> "TOKENIZER_ERROR"])]

(***************************************************************************)
(* Sources the caller hands to parse.                                      *)
(***************************************************************************)
Alphabet == {"^", "A", "1", ",", " ", "\n", "/", "*", "a"}

ShortSources == UNION {[1..n -> Alphabet] : n \in 0..MaxLen}

\* command texts that are concatenated into longer sources
CmdTexts ==
    { <<"^","X","A">>,
      <<"^","X","Z">>,
      <<"\n">>,
      <<"^","L","L"," ","7">>,
      <<"^","L","L"," ","1","2","a","b">>,
      <<"^","L","H">>,
      <<"^","L","H"," ","4">>,
      <<"^","L","H"," ","4",",","5">>,
      <<"^","F","O"," ","x",",","2">>,
      <<"^","F","O"," ","1","2",",","5">>,
      <<"^","F","O"," ",",",",","8">>,
      <<"^","F","D">>,
      <<"^","F","D"," ","a","b">>,
      <<"^","F","D"," ","a",",","b">>,
      <<"^","F","S">>,
      <<"^","B","C">>,
      <<"^","B","3"," ","R",",","5",",","N",",","Y",",","M">>,
      <<"^","G","B"," ","2",",","3",",","4",",","W",",","5">>,
      <<"^","A"," ","0",",","R",",","9">>,
      <<"^","F","R"," ","1">>,
      <<"^","C","F">>,
      <<"^","G","F">>,
      <<"^","Z","Z"," ","1",",","2">> }

RECURSIVE Concat(_)
Concat(ss) == IF ss = <<>> THEN <<>> ELSE Head(ss) \o Concat(Tail(ss))

ScenarioSources == {Concat(ss) : ss \in UNION {[1..n -> CmdTexts] : n \in 0..MaxCmds}}

\* test "should parse simple label with text" (Scenario A)
SimpleLabelSource ==
    <<"^","X","A","\n">> \o
    <<"^","F","O","5","0",",","5","0","\n">> \o
    <<"^","A","D","N",",","3","6",",","2","0","\n">> \o
    <<"^","F","D","H","e","l","l","o"," ","W","o","r","l","d","^","F","S","\n">> \o
    <<"^","X","Z">>

\* test "should parse barcode command" (Scenario B)
BarcodeSource ==
    <<"^","X","A","\n">> \o
    <<"^","F","O","1","0","0",",","1","0","0","\n">> \o
    <<"^","B","C","N",",","1","0","0",",","Y",",","N",",","N","\n">> \o
    <<"^","F","D","1","2","3","4","5","6","7","8","9","^","F","S","\n">> \o
    <<"^","X","Z">>

\* test "should handle errors gracefully" (Scenario C)
MissingParamSource ==
    <<"^","X","A","\n">> \o
    <<"^","F","O","5","0","\n">> \o
    <<"^","F","D","T","e","s","t","^","F","S","\n">> \o
    <<"^","X","Z">>

FieldDataOnlySource ==
    <<"^","F","D","H","e","l","l","o"," ","W","o","r","l","d">>

FieldDataStopSource == FieldDataOnlySource \o <<"^","F","S">>

TestSources == {SimpleLabelSource, BarcodeSource, MissingParamSource,
                FieldDataOnlySource, FieldDataStopSource}

\* sources with a closed block comment, on one line and across a newline
BlockCommentSource ==
    <<"/","*","a","*","/","^","X","A">>

CommentSources ==
    { BlockCommentSource,
      <<"/","*","\n","^","X","A","*","/">> }

\* a source with a lexical error after a command that lacks its parameters
DiagnosticsSource ==
    <<"^","L","H","\n","a">>

Sources ==
    ShortSources \cup ScenarioSources \cup TestSources \cup CommentSources
        \cup {DiagnosticsSource}

(***************************************************************************)
(* ZplTokenizer.                                                           *)
(***************************************************************************)
NoPosition == [line |-> 0, column |-> 0, offset |-> 0]

\* source[p]: undefined past the end
charAt(p) == IF p < Len(source) THEN source[p + 1] ELSE "undefined"

\* the calls the instance the caller holds has returned from
CallsMade == Cardinality({i \in DOMAIN seen : seen[i].instance = instance})

\* the sources the caller parses more than once: the short ones, the test
\* and comment sources, and the concatenations of fewer than MaxCmds texts
RepeatSources ==
    ShortSources \cup TestSources \cup CommentSources \cup
    {Concat(ss) : ss \in UNION {[1..n -> CmdTexts] : n \in 0..(MaxCmds - 1)}}

\* the sources a call may be made with: any for the first call of an
\* instance, the same one again after that if it is one that is repeated
CallSources ==
    IF docs = <<>> THEN Sources
    ELSE {docs[Len(docs)].metadata.source} \cap RepeatSources

\* parse(source) is called: new ZplTokenizer(source), then tokenize() resets
\* its fields (lines 34-35, 490-494)
ParseCall(s) ==
    /\ pc = "idle"
    /\ CallsMade < MaxCalls
    /\ source' = s
    /\ position' = 0
    /\ line' = 1
    /\ column' = 1
    /\ tkTokens' = <<>>
    /\ heap' = Append(heap, <<>>)
    /\ tkErrors' = Len(heap) + 1
    /\ startPos' = NoPosition
    /\ text' = <<>>
    /\ pc' = "scan"
    /\ UNCHANGED <<parserVars, docs, seen>>

\* tokenize loop, char === '^': tokenizeCommand saves startPos, consumes ^
ScanCommand ==
    /\ pc = "scan"
    /\ position < Len(source)
    /\ charAt(position) = "^"
    /\ startPos' = getCurrentPosition
    /\ text' = <<>>
    /\ position' = position + 1
    /\ column' = column + 1
    /\ pc' = "cmdcode"
    /\ UNCHANGED <<source, line, tkTokens, tkErrors, parserVars, heap, docs, seen>>

\* tokenizeCommand, code loop: one command character
CmdCodeChar ==
    /\ pc = "cmdcode"
    /\ position < Len(source)
    /\ isCommandChar(charAt(position))
    /\ text' = Append(text, charAt(position))
    /\ position' = position + 1
    /\ column' = column + 1
    /\ UNCHANGED <<pc, source, line, tkTokens, tkErrors, startPos, parserVars, heap, docs, seen>>

CommandStartToken(pos) == Token("COMMAND_START", <<"^">>, pos, <<"^">>)

CommandCodeToken(pos, code) ==
    Token("COMMAND_CODE", code, [pos EXCEPT !.column = pos.column + 1], code)

\* mutant: a marker without a code is emitted as a token, without an error
CmdCodeEndLoneMarker ==
    /\ pc = "cmdcode"
    /\ ~(position < Len(source) /\ isCommandChar(charAt(position)))
    /\ IF text # <<>>
       THEN /\ tkTokens' = tkTokens \o <<CommandStartToken(startPos),
                                         CommandCodeToken(startPos, text)>>
            /\ pc' = "params"
       ELSE /\ tkTokens' = Append(tkTokens, CommandStartToken(startPos))
            /\ pc' = "scan"
    /\ startPos' = NoPosition
    /\ text' = <<>>
    /\ UNCHANGED <<source, position, line, column, tkErrors, parserVars, heap, docs, seen>>

\* tokenizeCommand after the code loop: the two tokens, or the error
CmdCodeEnd ==
    /\ pc = "cmdcode"
    /\ ~(position < Len(source) /\ isCommandChar(charAt(position)))
    /\ IF text # <<>>
       THEN /\ tkTokens' = tkTokens \o <<CommandStartToken(startPos),
                                         CommandCodeToken(startPos, text)>>
            /\ pc' = "params"
            /\ heap' = heap
       ELSE /\ heap' = tkAddError(<<"Empty command after ^">>)
            /\ pc' = "scan"
            /\ tkTokens' = tkTokens
    /\ startPos' = NoPosition
    /\ text' = <<>>
    /\ UNCHANGED <<source, position, line, column, tkErrors, parserVars, docs, seen>>

\* tokenizeParameters: the loop ends at the end of input, at ^ or at a newline
ParamsExit ==
    /\ pc = "params"
    /\ \/ ~(position < Len(source))
       \/ charAt(position) \in {"^", "\n"}
    /\ pc' = "scan"
    /\ UNCHANGED <<tokenizerVars, parserVars, heap, docs, seen>>

\* mutant: a comma that closes an empty slot yields an empty PARAMETER token
ParamsSkipKeepsSlot ==
    /\ pc = "params"
    /\ position < Len(source)
    /\ charAt(position) \notin {"^", "\n"}
    /\ charAt(position) = "," \/ isWhitespace(charAt(position))
    /\ tkTokens' = IF /\ charAt(position) = ","
                      /\ \/ tkTokens[Len(tkTokens)].type # "PARAMETER"
                         \/ source[position] = ","
                   THEN Append(tkTokens,
                               Token("PARAMETER", <<>>, getCurrentPosition, <<>>))
                   ELSE tkTokens
    /\ position' = position + 1
    /\ column' = column + 1
    /\ UNCHANGED <<pc, source, line, tkErrors, startPos, text,
                   parserVars, heap, docs, seen>>

\* tokenizeParameters: a comma or a whitespace character is consumed
ParamsSkip ==
    /\ pc = "params"
    /\ position < Len(source)
    /\ charAt(position) \notin {"^", "\n"}
    /\ charAt(position) = "," \/ isWhitespace(charAt(position))
    /\ position' = position + 1
    /\ column' = column + 1
    /\ UNCHANGED <<pc, source, line, tkTokens, tkErrors, startPos, text,
                   parserVars, heap, docs, seen>>

\* tokenizeParameters: any other character starts a parameter
ParamBegin ==
    /\ pc = "params"
    /\ position < Len(source)
    /\ charAt(position) \notin {"^", "\n", ","}
    /\ ~isWhitespace(charAt(position))
    /\ startPos' = getCurrentPosition
    /\ text' = <<>>
    /\ pc' = "param"
    /\ UNCHANGED <<source, position, line, column, tkTokens, tkErrors,
                   parserVars, heap, docs, seen>>

\* mutant: a comma does not end a parameter
endsParameterNoComma ==
    \/ ~(position < Len(source))
    \/ charAt(position) \in {"^", "\n"}
    \/ isWhitespace(charAt(position))

\* the character at the scan position ends a parameter
endsParameter ==
    \/ ~(position < Len(source))
    \/ charAt(position) \in {",", "^", "\n"}
    \/ isWhitespace(charAt(position))

\* tokenizeParameters, inner loop: one parameter character
ParamChar ==
    /\ pc = "param"
    /\ ~endsParameter
    /\ text' = Append(text, charAt(position))
    /\ position' = position + 1
    /\ column' = column + 1
    /\ UNCHANGED <<pc, source, line, tkTokens, tkErrors, startPos, parserVars, heap, docs, seen>>

ParameterToken(pos, parameter) == Token("PARAMETER", parameter, pos, parameter)

\* tokenizeParameters after the inner loop: the parameter token
ParamEnd ==
    /\ pc = "param"
    /\ endsParameter
    /\ tkTokens' = IF text # <<>>
                   THEN Append(tkTokens, ParameterToken(startPos, text))
                   ELSE tkTokens
    /\ startPos' = NoPosition
    /\ text' = <<>>
    /\ pc' = "params"
    /\ UNCHANGED <<source, position, line, column, tkErrors, parserVars, heap, docs, seen>>

NewlineToken(pos) == Token("NEWLINE", <<"\n">>, pos, <<"\n">>)

\* tokenize loop, char === '\n': tokenizeNewline
ScanNewline ==
    /\ pc = "scan"
    /\ position < Len(source)
    /\ charAt(position) = "\n"
    /\ tkTokens' = Append(tkTokens, NewlineToken(getCurrentPosition))
    /\ line' = line + 1
    /\ column' = 1
    /\ position' = position + 1
    /\ UNCHANGED <<pc, source, tkErrors, startPos, text, parserVars, heap, docs, seen>>

\* the comment branch the tokenize loop takes at a '/', by its two tests
\* char === '/' && this.peek() === '/' and char === '/' && this.peek() === '*'
\* (peek() is the substring of length 1 at the scan position)
commentBranch ==
    IF charAt(position) = "/" /\ peekChars(1) = <<"/">> THEN "lineComment"
    ELSE IF charAt(position) = "/" /\ peekChars(1) = <<"*">> THEN "blockComment"
    ELSE "none"

\* tokenize loop, a comment opener: tokenizeLineComment / tokenizeBlockComment
\* save startPos and consume two characters
ScanComment ==
    /\ pc = "scan"
    /\ position < Len(source)
    /\ charAt(position) \notin {"^", "\n"}
    /\ commentBranch # "none"
    /\ startPos' = getCurrentPosition
    /\ text' = IF commentBranch = "lineComment" THEN <<"/", "/">> ELSE <<"/", "*">>
    /\ position' = position + 2
    /\ column' = column + 2
    /\ pc' = commentBranch
    /\ UNCHANGED <<source, line, tkTokens, tkErrors, parserVars, heap, docs, seen>>

\* the comment loop of the running method goes on
commentContinues ==
    IF pc = "lineComment"
    THEN position < Len(source) /\ charAt(position) # "\n"
    ELSE /\ position < Len(source) - 1
         /\ ~(charAt(position) = "*" /\ charAt(position + 1) = "/")

\* tokenizeLineComment / tokenizeBlockComment loop: one comment character
CommentChar ==
    /\ pc \in {"lineComment", "blockComment"}
    /\ commentContinues
    /\ text' = Append(text, charAt(position))
    /\ position' = position + 1
    /\ column' = column + 1
    /\ UNCHANGED <<pc, source, line, tkTokens, tkErrors, startPos, parserVars, heap, docs, seen>>

CommentToken(pos, comment) == Token("COMMENT", comment, pos, comment)

\* a block comment loop that stops at its closing */
blockCloses ==
    /\ pc = "blockComment"
    /\ position < Len(source) - 1
    /\ charAt(position) = "*"
    /\ charAt(position + 1) = "/"

\* after the comment loop: the comment token (a block comment consumes its */)
CommentEnd ==
    /\ pc \in {"lineComment", "blockComment"}
    /\ ~commentContinues
    /\ LET comment == IF blockCloses THEN text \o <<"*", "/">> ELSE text
       IN  tkTokens' = Append(tkTokens, CommentToken(startPos, comment))
    /\ position' = IF blockCloses THEN position + 2 ELSE position
    /\ column' = IF blockCloses THEN column + 2 ELSE column
    /\ startPos' = NoPosition
    /\ text' = <<>>
    /\ pc' = "scan"
    /\ UNCHANGED <<source, line, tkErrors, parserVars, heap, docs, seen>>

\* tokenize loop, whitespace: advance
ScanWhitespace ==
    /\ pc = "scan"
    /\ position < Len(source)
    /\ charAt(position) \notin {"^", "\n"}
    /\ commentBranch = "none"
    /\ isWhitespace(charAt(position))
    /\ position' = position + 1
    /\ column' = column + 1
    /\ UNCHANGED <<pc, source, line, tkTokens, tkErrors, startPos, text,
                   parserVars, heap, docs, seen>>

\* mutant: the unexpected character is reported but not consumed
ScanUnexpectedStuck ==
    /\ pc = "scan"
    /\ position < Len(source)
    /\ charAt(position) \notin {"^", "\n"}
    /\ commentBranch = "none"
    /\ ~isWhitespace(charAt(position))
    /\ heap' = tkAddError(<<"Unexpected character: ", charAt(position)>>)
    /\ UNCHANGED <<pc, tokenizerVars, parserVars, docs, seen>>

\* tokenize loop, any other character: error, advance
ScanUnexpected ==
    /\ pc = "scan"
    /\ position < Len(source)
    /\ charAt(position) \notin {"^", "\n"}
    /\ commentBranch = "none"
    /\ ~isWhitespace(charAt(position))
    /\ heap' = tkAddError(<<"Unexpected character: ", charAt(position)>>)
    /\ position' = position + 1
    /\ column' = column + 1
    /\ UNCHANGED <<pc, source, line, tkTokens, tkErrors, startPos, text,
                   parserVars, docs, seen>>

EOFToken(pos) == Token("EOF", <<"E","O","F">>, pos, <<>>)

(***************************************************************************)
(* ZplParser: utility methods.  A cursor cur is this.current (0-based).    *)
(***************************************************************************)
\* a value that is undefined in the code; no source text equals it
Undefined == <<"undefined">>

peek(cur) == tokens[cur + 1]

isAtEnd(cur) == peek(cur).type = "EOF"

check(cur, type) == IF isAtEnd(cur) THEN FALSE ELSE peek(cur).type = type

\* the cursor after advance()
advance(cur) == IF ~isAtEnd(cur) THEN cur + 1 ELSE cur

\* tokens[this.current - 1]
previous(cur) == tokens[cur]

\* peekNext()?.type === type
peekNextIs(cur, type) ==
    IF cur + 1 >= Len(tokens) THEN FALSE ELSE tokens[cur + 2].type = type

ParserError(message, pos) ==
    [message |-> message, position |-> pos, severity |-> "ERROR", code |-> "PARSER_ERROR"]

Warning(message, pos) ==
    [message |-> message, position |-> pos, suggestion |-> Undefined]

\* the number of PARAMETER tokens the loop of parseParameters consumes from cur
ParamCount(cur) ==
    LET count[c \in cur..Len(tokens)] ==
            IF check(c, "PARAMETER") THEN 1 + count[advance(c)] ELSE 0
    IN  count[cur]

\* F applied to the value of v, which is computed once
Bind(v, F(_)) == CHOOSE y \in {F(x) : x \in {v}} : TRUE

\* the parameters parseParameters returns from cur and the cursor it leaves
parseParameters(cur) ==
    Bind(ParamCount(cur),
         LAMBDA n : [parameters |-> [i \in 1..n |-> tokens[cur + i].value],
                     current    |-> cur + n])

\* parameters[k] of the code (0-based), undefined past the end
Param(parameters, k) ==
    IF k < Len(parameters) THEN parameters[k + 1] ELSE Undefined

DigitValue(c) ==
    CASE c = "0" -> 0 [] c = "1" -> 1 [] c = "2" -> 2 [] c = "3" -> 3 [] c = "4" -> 4
      [] c = "5" -> 5 [] c = "6" -> 6 [] c = "7" -> 7 [] c = "8" -> 8 [] c = "9" -> 9

\* the longest prefix of s made of digits
DigitPrefix(s) ==
    LET len[i \in 1..(Len(s) + 1)] ==
            IF i <= Len(s) /\ s[i] \in DigitChars THEN 1 + len[i + 1] ELSE 0
    IN  SubSeq(s, 1, len[1])

\* the number a sequence of digits denotes in base 10
DigitsValue(ds) ==
    LET val[i \in 0..Len(ds)] ==
            IF i = 0 THEN 0 ELSE 10 * val[i - 1] + DigitValue(ds[i])
    IN  val[Len(ds)]

\* s without its leading whitespace
SkipWhitespace(s) ==
    LET skip[i \in 1..(Len(s) + 1)] ==
            IF i <= Len(s) /\ isWhitespace(s[i]) THEN 1 + skip[i + 1] ELSE 0
    IN  SubSeq(s, skip[1] + 1, Len(s))

\* parseInt(value, 10): <<>> for NaN, else <<n>>.  Leading whitespace is
\* skipped, one sign is accepted, the digits are read up to the first
\* character that is none; undefined reads as the text "undefined".
parseInt(value) ==
    Bind(SkipWhitespace(value), LAMBDA s :
        LET signed == s # <<>> /\ Head(s) \in {"-", "+"}
        IN  Bind(DigitPrefix(IF signed THEN Tail(s) ELSE s), LAMBDA digits :
                IF digits = <<>> THEN <<>>
                ELSE IF signed /\ Head(s) = "-" THEN <<0 - DigitsValue(digits)>>
                ELSE <<DigitsValue(digits)>>))

parseNumberParameter(value, defaultValue) ==
    Bind(parseInt(value), LAMBDA num : IF num = <<>> THEN defaultValue ELSE num[1])

parseBooleanParameter(value, defaultValue) ==
    IF value = <<"Y">> THEN TRUE
    ELSE IF value = <<"N">> THEN FALSE
    ELSE defaultValue

parseOrientation(value) ==
    IF value \in {<<"N">>, <<"R">>, <<"I">>, <<"B">>} THEN value ELSE <<"N">>

(***************************************************************************)
(* ZplParser: the grammar rules.  Each yields the cursor it leaves, the    *)
(* node it returns (command: <<node>>, or <<>> for null), the errors and   *)
(* warnings it pushes, and whether it threw.                               *)
(***************************************************************************)
Result(cur, node, errs, warns) ==
    [current |-> cur, command |-> <<node>>, errs |-> errs, warns |-> warns,
     thrown |-> FALSE]

rawOf(commandToken) == <<"^">> \o commandToken.value

parseLabelStart(startToken, commandToken, cur) ==
    Bind(parseParameters(cur), LAMBDA p :
        Result(p.current,
               [type |-> "LABEL_START", command |-> <<"X","A">>,
                raw |-> rawOf(commandToken), position |-> startToken.position,
                parameters |-> p.parameters],
               <<>>, <<>>))

parseLabelEnd(startToken, commandToken, cur) ==
    Result(cur,
           [type |-> "LABEL_END", command |-> <<"X","Z">>,
            raw |-> rawOf(commandToken), position |-> startToken.position,
            parameters |-> <<>>],
           <<>>, <<>>)

parseLabelLength(startToken, commandToken, cur) ==
    Bind(parseParameters(cur), LAMBDA p :
        Result(p.current,
               [type |-> "LABEL_LENGTH", command |-> <<"L","L">>,
                raw |-> rawOf(commandToken), position |-> startToken.position,
                length |-> parseNumberParameter(Param(p.parameters, 0), 100),
                parameters |-> p.parameters],
               <<>>, <<>>))

\* mutant: the parameter count is tested against 1
missingParametersOffByOne(parameters, message, pos) ==
    IF Len(parameters) < 1 THEN <<ParserError(message, pos)>> ELSE <<>>

\* the errors parseLabelHome / parseFieldOrigin push for a parameter list
missingParameters(parameters, message, pos) ==
    IF Len(parameters) < 2 THEN <<ParserError(message, pos)>> ELSE <<>>

parseLabelHome(startToken, commandToken, cur) ==
    Bind(parseParameters(cur), LAMBDA p :
        Result(p.current,
               [type |-> "LABEL_HOME", command |-> <<"L","H">>,
                raw |-> rawOf(commandToken), position |-> startToken.position,
                x |-> parseNumberParameter(Param(p.parameters, 0), 0),
                y |-> parseNumberParameter(Param(p.parameters, 1), 0),
                parameters |-> p.parameters],
               missingParameters(p.parameters,
                                 <<"LH command requires x and y parameters">>,
                                 startToken.position),
               <<>>))

parseFieldOrigin(startToken, commandToken, cur) ==
    Bind(parseParameters(cur), LAMBDA p :
        Result(p.current,
               [type |-> "FIELD_ORIGIN", command |-> <<"F","O">>,
                raw |-> rawOf(commandToken), position |-> startToken.position,
                x |-> parseNumberParameter(Param(p.parameters, 0), 0),
                y |-> parseNumberParameter(Param(p.parameters, 1), 0),
                parameters |-> p.parameters],
               missingParameters(p.parameters,
                                 <<"FO command requires x and y parameters">>,
                                 startToken.position),
               <<>>))

\* check(COMMAND_START) && peekNext()?.type === COMMAND_CODE, and the code is value
nextCommandIs(cur, value) ==
    /\ check(cur, "COMMAND_START")
    /\ peekNextIs(cur, "COMMAND_CODE")
    /\ tokens[cur + 2].value = value

\* mutant: the FD rule does not look for a following FS
parseFieldDataNoStop(startToken, commandToken, cur) ==
    Bind(check(cur, "PARAMETER"), LAMBDA hasContent :
    Bind(IF hasContent THEN advance(cur) ELSE cur, LAMBDA c1 :
        LET content == IF hasContent THEN previous(c1).value ELSE <<>>
        IN  Result(c1,
                   [type |-> "FIELD_DATA", command |-> <<"F","D">>,
                    raw |-> rawOf(commandToken), position |-> startToken.position,
                    content |-> content, stopCommand |-> FALSE,
                    parameters |-> [content |-> content]],
                   <<>>, <<>>)))

parseFieldData(startToken, commandToken, cur) ==
    Bind(check(cur, "PARAMETER"), LAMBDA hasContent :
    Bind(IF hasContent THEN advance(cur) ELSE cur, LAMBDA c1 :
    Bind(nextCommandIs(c1, <<"F","S">>), LAMBDA stopCommand :
        LET content == IF hasContent THEN previous(c1).value ELSE <<>>
            c2      == IF stopCommand THEN advance(advance(c1)) ELSE c1
        IN  Result(c2,
                   [type |-> "FIELD_DATA", command |-> <<"F","D">>,
                    raw |-> rawOf(commandToken), position |-> startToken.position,
                    content |-> content, stopCommand |-> stopCommand,
                    parameters |-> [content |-> content]],
                   <<>>, <<>>))))

\* mutant: the barcode rule does not look for a following FD
parseBarcodeNoLookahead(startToken, commandToken, cur) ==
    Bind(parseParameters(cur), LAMBDA p :
        Result(p.current,
               [type |-> "BARCODE", command |-> commandToken.value,
                raw |-> rawOf(commandToken), position |-> startToken.position,
                orientation |-> parseOrientation(Param(p.parameters, 0)),
                height |-> parseNumberParameter(Param(p.parameters, 1), 10),
                printInterpretationLine |->
                    parseBooleanParameter(Param(p.parameters, 2), TRUE),
                printAboveCode |->
                    parseBooleanParameter(Param(p.parameters, 3), FALSE),
                mode |-> Param(p.parameters, 4),
                data |-> <<>>,
                parameters |-> p.parameters],
               <<>>, <<>>))

parseBarcode(startToken, commandToken, cur) ==
    Bind(parseParameters(cur), LAMBDA p :
    Bind(nextCommandIs(p.current, <<"F","D">>), LAMBDA isFD :
    Bind(IF isFD THEN advance(advance(p.current)) ELSE p.current, LAMBDA c1 :
    Bind(isFD /\ check(c1, "PARAMETER"), LAMBDA hasData :
    LET c2   == IF hasData THEN advance(c1) ELSE c1
        data == IF hasData THEN previous(c2).value ELSE <<>>
    IN  Result(c2,
               [type |-> "BARCODE", command |-> commandToken.value,
                raw |-> rawOf(commandToken), position |-> startToken.position,
                orientation |-> parseOrientation(Param(p.parameters, 0)),
                height |-> parseNumberParameter(Param(p.parameters, 1), 10),
                printInterpretationLine |->
                    parseBooleanParameter(Param(p.parameters, 2), TRUE),
                printAboveCode |->
                    parseBooleanParameter(Param(p.parameters, 3), FALSE),
                mode |-> Param(p.parameters, 4),
                data |-> data,
                parameters |-> p.parameters],
               <<>>, <<>>)))))

\* rounding and width are numbers or undefined: <<n>> or <<>>
parseGraphicBox(startToken, commandToken, cur) ==
    Bind(parseParameters(cur), LAMBDA p :
        Result(p.current,
               [type |-> "GRAPHIC_BOX", command |-> <<"G","B">>,
                raw |-> rawOf(commandToken), position |-> startToken.position,
                width |-> parseNumberParameter(Param(p.parameters, 0), 1),
                height |-> parseNumberParameter(Param(p.parameters, 1), 1),
                thickness |-> parseNumberParameter(Param(p.parameters, 2), 1),
                color |-> IF Param(p.parameters, 3) = <<"W">> THEN "W" ELSE "B",
                rounding |-> IF Len(p.parameters) > 4
                             THEN <<parseNumberParameter(Param(p.parameters, 4), 0)>>
                             ELSE <<>>,
                parameters |-> p.parameters],
               <<>>, <<>>))

parseFontSelection(startToken, commandToken, cur) ==
    Bind(parseParameters(cur), LAMBDA p :
    Bind(parseNumberParameter(Param(p.parameters, 2), 10), LAMBDA height :
        Result(p.current,
               [type |-> "FONT_SELECTION", command |-> <<"A">>,
                raw |-> rawOf(commandToken), position |-> startToken.position,
                font |-> IF Len(p.parameters) > 0 THEN Param(p.parameters, 0)
                         ELSE <<"0">>,
                orientation |-> parseOrientation(Param(p.parameters, 1)),
                height |-> height,
                width |-> IF Len(p.parameters) > 3
                          THEN <<parseNumberParameter(Param(p.parameters, 3), height)>>
                          ELSE <<>>,
                parameters |-> p.parameters],
               <<>>, <<>>)))

parseGenericCommand(startToken, commandToken, cur) ==
    Bind(parseParameters(cur), LAMBDA p :
        [current |-> p.current,
         command |-> <<[type |-> "GENERIC_COMMAND", command |-> commandToken.value,
                        raw |-> rawOf(commandToken),
                        position |-> startToken.position,
                        parameters |-> p.parameters]>>])

\* the object {} the three stubs return: no field at all
EmptyObject == [f \in {} |-> Undefined]

\* mutant: a stub that returns null
parseNothing(startToken, commandToken, cur) ==
    [current |-> cur, command |-> <<>>, errs |-> <<>>, warns |-> <<>>, thrown |-> FALSE]

parseFieldReverse(startToken, commandToken, cur) == Result(cur, EmptyObject, <<>>, <<>>)

parseChangeFont(startToken, commandToken, cur) == Result(cur, EmptyObject, <<>>, <<>>)

parseGraphicField(startToken, commandToken, cur) == Result(cur, EmptyObject, <<>>, <<>>)

\* mutant: the default case does not call addWarning
parseUnsupportedSilent(startToken, commandToken, cur) ==
    Bind(parseGenericCommand(startToken, commandToken, cur), LAMBDA g :
        [current |-> g.current, command |-> g.command, errs |-> <<>>,
         warns |-> <<>>, thrown |-> FALSE])

\* the default case of the switch: addWarning, then parseGenericCommand
parseUnsupported(startToken, commandToken, cur) ==
    Bind(parseGenericCommand(startToken, commandToken, cur), LAMBDA g :
        [current |-> g.current, command |-> g.command, errs |-> <<>>,
         warns |-> <<Warning(<<"Unsupported command: ">> \o commandToken.value,
                             commandToken.position)>>,
         thrown |-> FALSE])

\* the switch of parseCommand
dispatch(commandStart, commandToken, cur) ==
    LET code == commandToken.value
    IN  CASE code = <<"X","A">> -> parseLabelStart(commandStart, commandToken, cur)
          [] code = <<"X","Z">> -> parseLabelEnd(commandStart, commandToken, cur)
          [] code = <<"L","L">> -> parseLabelLength(commandStart, commandToken, cur)
          [] code = <<"L","H">> -> parseLabelHome(commandStart, commandToken, cur)
          [] code = <<"F","O">> -> parseFieldOrigin(commandStart, commandToken, cur)
          [] code = <<"F","R">> -> parseFieldReverse(commandStart, commandToken, cur)
          [] code = <<"G","B">> -> parseGraphicBox(commandStart, commandToken, cur)
          [] code = <<"F","D">> -> parseFieldData(commandStart, commandToken, cur)
          [] code = <<"A">>     -> parseFontSelection(commandStart, commandToken, cur)
          [] code = <<"C","F">> -> parseChangeFont(commandStart, commandToken, cur)
          [] code \in {<<"B","C">>, <<"B","3">>, <<"B","N">>}
                                -> parseBarcode(commandStart, commandToken, cur)
          [] code = <<"G","F">> -> parseGraphicField(commandStart, commandToken, cur)
          [] OTHER              -> parseUnsupported(commandStart, commandToken, cur)

\* parseCommand from cursor cur; consume throws the error it records when
\* the token after the marker is no COMMAND_CODE
parseCommand(cur) ==
    IF check(cur, "COMMAND_START")
    THEN Bind(advance(cur), LAMBDA c1 :
             IF check(c1, "COMMAND_CODE")
             THEN Bind(advance(c1), LAMBDA c2 :
                      dispatch(previous(c1), previous(c2), c2))
             ELSE [current |-> c1, command |-> <<>>,
                   errs |-> <<ParserError(<<"Expected command code after ^">>,
                                          peek(c1).position)>>,
                   warns |-> <<>>, thrown |-> TRUE])
    ELSE [current |-> advance(cur), command |-> <<>>, errs |-> <<>>,
          warns |-> <<>>, thrown |-> FALSE]

\* synchronize: advance, then the while loop
synchronize(cur) ==
    LET loop[c \in 1..Len(tokens)] ==
            IF isAtEnd(c) THEN c
            ELSE IF previous(c).type = "NEWLINE" THEN c
            ELSE IF check(c, "COMMAND_START") THEN c
            ELSE loop[advance(c)]
    IN  IF isAtEnd(cur) THEN cur ELSE loop[advance(cur)]

\* cmd.type, undefined for an object without the field
typeOf(cmd) == IF "type" \in DOMAIN cmd THEN cmd.type ELSE "undefined"

\* Math.max(...ns) of a non-empty list
MaxOf(ns) == CHOOSE m \in {ns[i] : i \in DOMAIN ns} : \A i \in DOMAIN ns : ns[i] <= m

\* a number or undefined: <<n>> or <<>>
calculateLabelWidth(cmds) ==
    LET fieldOrigins == SelectSeq(cmds, LAMBDA cmd : typeOf(cmd) = "FIELD_ORIGIN")
    IN  IF Len(fieldOrigins) = 0 THEN <<>>
        ELSE <<MaxOf([i \in 1..Len(fieldOrigins) |-> fieldOrigins[i].x]) + 100>>

\* mutant: the length of the last LABEL_LENGTH node
calculateLabelLengthLast(cmds) ==
    LET lengthCmds == SelectSeq(cmds, LAMBDA cmd : typeOf(cmd) = "LABEL_LENGTH")
    IN  IF Len(lengthCmds) = 0 THEN <<>> ELSE <<lengthCmds[Len(lengthCmds)].length>>

calculateLabelLength(cmds) ==
    LET lengthCmds == SelectSeq(cmds, LAMBDA cmd : typeOf(cmd) = "LABEL_LENGTH")
    IN  IF Len(lengthCmds) = 0 THEN <<>> ELSE <<lengthCmds[1].length>>

(***************************************************************************)
(* ZplParser.parse after tokenize().                                       *)
(***************************************************************************)
\* mutant: parse does not reset this.warnings
TokenizeReturnKeepsWarnings ==
    /\ pc = "scan"
    /\ ~(position < Len(source))
    /\ tkTokens' = Append(tkTokens, EOFToken(getCurrentPosition))
    /\ tokens' = tkTokens'
    /\ errors' = tkErrors
    /\ current' = 0
    /\ commands' = <<>>
    /\ pc' = "parse"
    /\ UNCHANGED <<source, position, line, column, tkErrors, startPos, text,
                   warnings, heap, docs, seen, instance>>

\* mutant: parse empties the warnings array it holds instead of replacing it
TokenizeReturnClearsInPlace ==
    /\ pc = "scan"
    /\ ~(position < Len(source))
    /\ tkTokens' = Append(tkTokens, EOFToken(getCurrentPosition))
    /\ tokens' = tkTokens'
    /\ errors' = tkErrors
    /\ current' = 0
    /\ heap' = [heap EXCEPT ![warnings] = <<>>]
    /\ commands' = <<>>
    /\ pc' = "parse"
    /\ UNCHANGED <<source, position, line, column, tkErrors, startPos, text,
                   warnings, docs, seen, instance>>

\* tokenize ends: the EOF token is pushed and the result returned; parse
\* takes the tokens and the error array, resets current and warnings and
\* starts its command list (lines 516-523, 37-42)
TokenizeReturn ==
    /\ pc = "scan"
    /\ ~(position < Len(source))
    /\ tkTokens' = Append(tkTokens, EOFToken(getCurrentPosition))
    /\ tokens' = tkTokens'
    /\ errors' = tkErrors
    /\ current' = 0
    /\ heap' = Append(heap, <<>>)
    /\ warnings' = Len(heap) + 1
    /\ commands' = <<>>
    /\ pc' = "parse"
    /\ UNCHANGED <<source, position, line, column, tkErrors, startPos, text,
                   docs, seen, instance>>

\* one iteration of the dispatch loop: parseCommand, or synchronize in the catch
ParseLoop ==
    /\ pc = "parse"
    /\ ~isAtEnd(current)
    /\ \E r \in {parseCommand(current)} :
           /\ commands' = IF ~r.thrown /\ r.command # <<>>
                          THEN Append(commands, r.command[1])
                          ELSE commands
           /\ current' = IF r.thrown THEN synchronize(r.current) ELSE r.current
           /\ heap' = [heap EXCEPT ![errors] = @ \o r.errs,
                                   ![warnings] = @ \o r.warns]
    /\ UNCHANGED <<pc, tokenizerVars, tokens, errors, warnings, docs, seen, instance>>

Document(cmds) ==
    [type     |-> "ZPL_DOCUMENT",
     commands |-> cmds,
     metadata |-> [source      |-> source,
                   errors      |-> errors,
                   warnings    |-> warnings,
                   labelWidth  |-> calculateLabelWidth(cmds),
                   labelLength |-> calculateLabelLength(cmds)]]

\* a Document as its reader finds it: the arrays it refers to, read now
Contents(doc) ==
    [commands    |-> doc.commands,
     source      |-> doc.metadata.source,
     errors      |-> heap[doc.metadata.errors],
     warnings    |-> heap[doc.metadata.warnings],
     labelWidth  |-> doc.metadata.labelWidth,
     labelLength |-> doc.metadata.labelLength]

\* what the caller notes of a Document it is handed: its contents and the
\* instance that returned it
Observed(doc) ==
    [commands    |-> Contents(doc).commands,
     source      |-> Contents(doc).source,
     errors      |-> Contents(doc).errors,
     warnings    |-> Contents(doc).warnings,
     labelWidth  |-> Contents(doc).labelWidth,
     labelLength |-> Contents(doc).labelLength,
     instance    |-> instance]

\* the loop is over: the Document is assembled and returned
ParseReturn ==
    /\ pc = "parse"
    /\ isAtEnd(current)
    /\ docs' = Append(docs, Document(commands))
    /\ seen' = Append(seen, Observed(Document(commands)))
    /\ commands' = <<>>
    /\ pc' = "idle"
    /\ UNCHANGED <<tokenizerVars, tokens, current, errors, warnings, heap, instance>>

(***************************************************************************)
(* The specification: a caller with one fresh ZplParser.                   *)
(***************************************************************************)
\* new ZplParser(): the field initializers (lines 28-31); no tokenizer yet
Init ==
    /\ pc = "idle"
    /\ source = <<>>
    /\ position = 0
    /\ line = 1
    /\ column = 1
    /\ tkTokens = <<>>
    /\ tkErrors = 0
    /\ startPos = NoPosition
    /\ text = <<>>
    /\ tokens = <<>>
    /\ current = 0
    /\ heap = << <<>>, <<>> >>
    /\ errors = 1
    /\ warnings = 2
    /\ commands = <<>>
    /\ docs = <<>>
    /\ seen = <<>>
    /\ instance = 1

Call ==
    /\ pc = "idle"
    /\ CallsMade < MaxCalls
    /\ \E s \in CallSources : ParseCall(s)

\* the steps of a running call
Step ==
    \/ ScanCommand
    \/ CmdCodeChar
    \/ CmdCodeEnd
    \/ ParamsExit
    \/ ParamsSkip
    \/ ParamBegin
    \/ ParamChar
    \/ ParamEnd
    \/ ScanNewline
    \/ ScanComment
    \/ CommentChar
    \/ CommentEnd
    \/ ScanWhitespace
    \/ ScanUnexpected
    \/ TokenizeReturn
    \/ ParseLoop
    \/ ParseReturn

Next == Call \/ Step

Spec == Init /\ [][Next]_vars

\* parse is synchronous: once called it runs until it returns
FairSpec == Spec /\ WF_vars(Step)

(***************************************************************************)
(* A caller that reuses its instance for other sources and then builds a   *)
(* fresh instance for the source it parsed last.                           *)
(***************************************************************************)
\* the sources of the first call
FirstSources ==
    CmdTexts \cup TestSources \cup
    { <<>>, <<"^","F","O"," ","3","^","F","S","\n","a">> }

\* the sources of the later calls on an instance
ReuseSources ==
    { <<>>,
      <<"a"," ","/","/","a">>,
      <<"^","L","H"," ","4","\n","^","Z","Z"," ","1">> }

ReuseCallSources ==
    IF docs = <<>> THEN FirstSources
    ELSE IF CallsMade = 0 THEN {docs[Len(docs)].metadata.source}
    ELSE ReuseSources

ReuseCall ==
    /\ pc = "idle"
    /\ CallsMade < MaxCalls
    /\ \E s \in ReuseCallSources : ParseCall(s)

\* new ZplParser(): the caller drops its instance for a fresh one (field
\* initializers, lines 28-31); the Documents it was handed stay with it
NewParser ==
    /\ pc = "idle"
    /\ instance = 1
    /\ docs # <<>>
    /\ instance' = instance + 1
    /\ tokens' = <<>>
    /\ current' = 0
    /\ heap' = heap \o << <<>>, <<>> >>
    /\ errors' = Len(heap) + 1
    /\ warnings' = Len(heap) + 2
    /\ UNCHANGED <<pc, tokenizerVars, commands, docs, seen>>

ReuseNext == ReuseCall \/ NewParser \/ Step

ReuseSpec == Init /\ [][ReuseNext]_vars

(***************************************************************************)
(* Properties.                                                             *)
(***************************************************************************)

\* C1 (Totality).  Every iteration that stays in a scan loop of the
\* tokenizer moves the scan position forward, a parameter-loop iteration
\* that scanned a parameter ends past the parameter's start, the scan
\* position never moves back during a call, every iteration of the
\* dispatch loop moves the token cursor forward, and the loop is left only
\* with the cursor on the EOF token, returning one Document.
IterationAdvances ==
    /\ (pc = "scan" /\ pc' # "parse") => position' > position
    /\ (pc = "cmdcode" /\ pc' = "cmdcode") => position' > position
    /\ (pc = "params" /\ pc' = "params") => position' > position
    /\ (pc = "param" /\ pc' = "param") => position' > position
    /\ (pc = "param" /\ pc' = "params") => position > startPos.offset
    /\ (pc \in {"lineComment", "blockComment"} /\ pc' = pc) => position' > position
    /\ pc # "idle" => position' >= position
    /\ (pc = "parse" /\ pc' = "parse") => current' > current
    /\ (pc = "parse" /\ pc' = "idle") =>
           /\ peek(current).type = "EOF"
           /\ Len(docs') = Len(docs) + 1

\* every call that was started returns its Document
Terminates ==
    \A n \in 0..(MaxCalls - 1) :
        (pc # "idle" /\ Len(docs) = n) ~> (pc = "idle" /\ Len(docs) = n + 1)

Totality == [][IterationAdvances]_vars /\ Terminates

\* a call returned for a source that holds unscannable characters and commands
TotalityWitness ==
    /\ pc = "idle"
    /\ seen # <<>>
    /\ seen[1].errors # <<>>
    /\ seen[1].commands # <<>>

\* C2 (Idempotence).  Two calls on the same instance with the same source
\* return Documents with the same commands, errors, warnings and metadata.
Idempotence ==
    \A i, j \in DOMAIN seen :
        seen[i].source = seen[j].source =>
            /\ seen[i].commands = seen[j].commands
            /\ seen[i].errors = seen[j].errors
            /\ seen[i].warnings = seen[j].warnings
            /\ seen[i].labelWidth = seen[j].labelWidth
            /\ seen[i].labelLength = seen[j].labelLength

\* the second call returned a Document with commands, errors and warnings
IdempotenceWitness ==
    /\ Len(seen) >= 2
    /\ seen[2].source = seen[1].source
    /\ seen[2].commands # <<>>
    /\ seen[2].errors # <<>>
    /\ seen[2].warnings # <<>>

\* the offsets of a token stream never decrease
OffsetsAscend(toks) ==
    \A i \in 1..(Len(toks) - 1) :
        toks[i + 1].position.offset >= toks[i].position.offset

\* C3 (Position monotonicity).  The offsets of the token stream never
\* decrease, while it is produced and when tokenize has returned it, and the
\* returned stream holds exactly one EOF token, its last.
PositionMonotonic ==
    /\ OffsetsAscend(tkTokens)
    /\ pc \notin {"idle", "parse"} => \A i \in DOMAIN tkTokens : tkTokens[i].type # "EOF"
    /\ tokens # <<>> =>
           /\ OffsetsAscend(tokens)
           /\ tokens[Len(tokens)].type = "EOF"
           /\ Cardinality({i \in DOMAIN tokens : tokens[i].type = "EOF"}) = 1

\* a returned stream with a command, a parameter and a newline before its EOF
PositionMonotonicWitness ==
    /\ pc = "parse"
    /\ \E i, j, k \in DOMAIN tokens :
           /\ i < j /\ j < k
           /\ tokens[i].type = "COMMAND_CODE"
           /\ tokens[j].type = "PARAMETER"
           /\ tokens[k].type = "NEWLINE"

HelloWorld == <<"H","e","l","l","o"," ","W","o","r","l","d">>

\* C4 (Scenario A).  The simple label parses with 0 errors into 5 nodes,
\* node[0] a LABEL_START and node[3] a FIELD_DATA with content "Hello World"
\* and stopCommand = true.
SimpleLabelParses ==
    \A d \in DOMAIN seen :
        seen[d].source = SimpleLabelSource =>
            /\ seen[d].errors = <<>>
            /\ Len(seen[d].commands) = 5
            /\ typeOf(seen[d].commands[1]) = "LABEL_START"
            /\ typeOf(seen[d].commands[4]) = "FIELD_DATA"
            /\ seen[d].commands[4].content = HelloWorld
            /\ seen[d].commands[4].stopCommand

\* C5 (Scenario B).  The barcode label holds one BARCODE node with
\* height 100, orientation N, printInterpretationLine true, printAboveCode
\* false and data "123456789".
BarcodeParses ==
    \A d \in DOMAIN seen :
        seen[d].source = BarcodeSource =>
            LET barcodes == SelectSeq(seen[d].commands,
                                      LAMBDA cmd : typeOf(cmd) = "BARCODE")
            IN  /\ Len(barcodes) = 1
                /\ barcodes[1].height = 100
                /\ barcodes[1].orientation = <<"N">>
                /\ barcodes[1].printInterpretationLine
                /\ ~barcodes[1].printAboveCode
                /\ barcodes[1].data = <<"1","2","3","4","5","6","7","8","9">>

\* C6 (Scenario C).  The label whose FO lacks y yields at least one error
\* and 4 nodes: LABEL_START, FIELD_ORIGIN with y = 0, FIELD_DATA, LABEL_END.
MissingParamRecovers ==
    \A d \in DOMAIN seen :
        seen[d].source = MissingParamSource =>
            /\ Len(seen[d].errors) >= 1
            /\ Len(seen[d].commands) = 4
            /\ typeOf(seen[d].commands[1]) = "LABEL_START"
            /\ typeOf(seen[d].commands[2]) = "FIELD_ORIGIN"
            /\ seen[d].commands[2].y = 0
            /\ typeOf(seen[d].commands[3]) = "FIELD_DATA"
            /\ typeOf(seen[d].commands[4]) = "LABEL_END"

\* the Document holds a FIELD_DATA node with this content and stopCommand
HasFieldData(doc, content, stopCommand) ==
    \E k \in DOMAIN doc.commands :
        /\ typeOf(doc.commands[k]) = "FIELD_DATA"
        /\ doc.commands[k].content = content
        /\ doc.commands[k].stopCommand = stopCommand

\* C7 (FD/FS association).  ^FDHello World^FS yields a FIELD_DATA node with
\* content "Hello World" and stopCommand = true; ^FDHello World yields one
\* with the same content and stopCommand = false.
FieldDataAssociation ==
    \A d \in DOMAIN seen :
        /\ seen[d].source = FieldDataStopSource => HasFieldData(seen[d], HelloWorld, TRUE)
        /\ seen[d].source = FieldDataOnlySource => HasFieldData(seen[d], HelloWorld, FALSE)

(***************************************************************************)
(* Token-level notions the properties below are stated with.  They apply   *)
(* when a call has returned: tokens is then the stream of the last call    *)
(* and LastDoc the Document read from it.                                  *)
(***************************************************************************)
Returned == pc = "idle" /\ seen # <<>>

LastDoc == seen[Len(seen)]

\* the indices of the COMMAND_CODE tokens whose code is in codes
CodeTokens(codes) ==
    {i \in DOMAIN tokens : tokens[i].type = "COMMAND_CODE" /\ tokens[i].value \in codes}

\* the values of the PARAMETER tokens that directly follow token i
FollowingParameters(i) ==
    LET n == CHOOSE m \in 0..(Len(tokens) - i) :
                 /\ \A j \in 1..m : tokens[i + j].type = "PARAMETER"
                 /\ tokens[i + m + 1].type # "PARAMETER"
    IN  [j \in 1..n |-> tokens[i + j].value]

\* the nodes of the Document that stand at the marker of code token i
NodesAt(doc, i) ==
    {k \in DOMAIN doc.commands :
        /\ "position" \in DOMAIN doc.commands[k]
        /\ doc.commands[k].position = tokens[i - 1].position}

\* the structural errors of the Document recorded at a position
StructuralErrorsAt(doc, pos) ==
    {e \in DOMAIN doc.errors :
        doc.errors[e].code = "PARSER_ERROR" /\ doc.errors[e].position = pos}

\* a parameter that is no number: it does not start with a digit, nor with
\* a sign and a digit
NonNumeric(parameter) ==
    ~ \/ parameter[1] \in DigitChars
      \/ /\ parameter[1] \in {"-", "+"}
         /\ Len(parameter) > 1
         /\ parameter[2] \in DigitChars

CoordinateType(code) == IF code = <<"L","H">> THEN "LABEL_HOME" ELSE "FIELD_ORIGIN"

DedicatedCodes ==
    {<<"X","A">>, <<"X","Z">>, <<"L","L">>, <<"L","H">>, <<"F","O">>, <<"F","R">>,
     <<"G","B">>, <<"F","D">>, <<"A">>, <<"C","F">>, <<"B","C">>, <<"B","3">>,
     <<"B","N">>, <<"G","F">>}

\* the codes of the stream that have no case
UnsupportedTokens ==
    {i \in DOMAIN tokens :
        tokens[i].type = "COMMAND_CODE" /\ tokens[i].value \notin DedicatedCodes}

\* the warnings of the Document that name the code of token i at its position
WarningsFor(doc, i) ==
    {w \in DOMAIN doc.warnings :
        /\ doc.warnings[w].message = <<"Unsupported command: ">> \o tokens[i].value
        /\ doc.warnings[w].position = tokens[i].position}

\* code token i is handled by the generic fallback: one GENERIC_COMMAND node
\* with the code, the marker's position and the parameters that follow, and
\* one warning naming the code
GenericFallback(doc, i) ==
    /\ Cardinality(NodesAt(doc, i)) = 1
    /\ \A k \in NodesAt(doc, i) :
           /\ typeOf(doc.commands[k]) = "GENERIC_COMMAND"
           /\ doc.commands[k].command = tokens[i].value
           /\ doc.commands[k].parameters = FollowingParameters(i)
    /\ Cardinality(WarningsFor(doc, i)) = 1

GenericNodes(doc) ==
    {k \in DOMAIN doc.commands : typeOf(doc.commands[k]) = "GENERIC_COMMAND"}

\* C9 as stated.  Every code without a grammar rule yields one
\* GENERIC_COMMAND node with the parameters that follow it and one warning
\* naming it; the Document has as many warnings as GENERIC_COMMAND nodes
\* and no structural error at such a command.
UnsupportedAlwaysGeneric ==
    Returned =>
        /\ \A i \in UnsupportedTokens : GenericFallback(LastDoc, i)
        /\ Len(LastDoc.warnings) = Cardinality(GenericNodes(LastDoc))
        /\ \A i \in UnsupportedTokens :
               StructuralErrorsAt(LastDoc, tokens[i - 1].position) = {}

\* code token i is an FS that the FD rule consumed as the stop of its field:
\* the command before it is an FD, with at most one parameter, whose node
\* has stopCommand = true
FoldedStop(doc, i) ==
    /\ tokens[i].value = <<"F","S">>
    /\ \E c \in CodeTokens({<<"F","D">>}) :
           /\ c + Len(FollowingParameters(c)) + 2 = i
           /\ Len(FollowingParameters(c)) <= 1
           /\ \E k \in NodesAt(doc, c) :
                  /\ typeOf(doc.commands[k]) = "FIELD_DATA"
                  /\ doc.commands[k].stopCommand

\* C9 as amended.  Every code without a grammar rule, other than an FS that
\* the FD rule consumed as the stop of its field, yields one GENERIC_COMMAND
\* node with the parameters that follow it and one warning naming it; a
\* consumed FS yields no node and no warning; the Document has as many
\* warnings as GENERIC_COMMAND nodes and no structural error at such a command.
UnsupportedGeneric ==
    Returned =>
        /\ \A i \in UnsupportedTokens :
               IF FoldedStop(LastDoc, i)
               THEN NodesAt(LastDoc, i) = {} /\ WarningsFor(LastDoc, i) = {}
               ELSE GenericFallback(LastDoc, i)
        /\ Len(LastDoc.warnings) = Cardinality(GenericNodes(LastDoc))
        /\ \A i \in UnsupportedTokens :
               StructuralErrorsAt(LastDoc, tokens[i - 1].position) = {}

\* an unsupported command with two parameters was parsed next to a command
\* that records a structural error
UnsupportedGenericWitness ==
    /\ Returned
    /\ \E i \in UnsupportedTokens :
           /\ Len(FollowingParameters(i)) = 2
           /\ GenericFallback(LastDoc, i)
    /\ Len(LastDoc.warnings) = 1
    /\ Len(LastDoc.errors) = 1

\* C10 (FR, CF, GF).  Each FR, CF or GF code is handled by the generic
\* fallback: a GENERIC_COMMAND node with the code, the marker's position and
\* the parameters that follow, and an "Unsupported command" warning.
StubsUseGenericFallback ==
    Returned =>
        \A i \in CodeTokens({<<"F","R">>, <<"C","F">>, <<"G","F">>}) :
            GenericFallback(LastDoc, i)

\* C11 as stated.  The command list of every returned Document is non-empty.
CommandListNonEmpty ==
    Returned => LastDoc.commands # <<>>

\* C11 as amended.  The command list of a returned Document is non-empty
\* exactly when the token stream holds a command marker; for a source
\* without a command it is empty.
CommandListNonEmptyForCommands ==
    Returned =>
        (LastDoc.commands # <<>>
            <=> \E i \in DOMAIN tokens : tokens[i].type = "COMMAND_START")

\* a source whose first command follows a newline was parsed
CommandListWitness ==
    /\ Returned
    /\ tokens[1].type = "NEWLINE"
    /\ LastDoc.commands # <<>>

\* two observations of a Document hold the same contents
SameContents(a, b) ==
    /\ a.commands = b.commands
    /\ a.source = b.source
    /\ a.errors = b.errors
    /\ a.warnings = b.warnings
    /\ a.labelWidth = b.labelWidth
    /\ a.labelLength = b.labelLength

\* Document j is the first its instance returned
FreshCall(j) == \A k \in 1..(j - 1) : seen[k].instance # seen[j].instance

\* C12 (Sequential reuse).  A Document returned for a source by an instance
\* that parsed other sources before equals the Document a fresh instance
\* returns for that source, and every Document handed out earlier still
\* reads as it did when it was returned.
SequentialReuse ==
    /\ \A i \in DOMAIN docs : SameContents(Contents(docs[i]), seen[i])
    /\ \A i, j \in DOMAIN seen :
           (seen[i].source = seen[j].source /\ FreshCall(j)) =>
               SameContents(seen[i], seen[j])

\* parse(a), then parse(b) on the same instance, then parse(b) on a fresh
\* one, where a and b differ and both Documents hold commands, errors and
\* warnings
SequentialReuseWitness ==
    /\ pc = "idle"
    /\ Len(seen) = 3
    /\ seen[1].source # seen[2].source
    /\ seen[2].instance = seen[1].instance
    /\ seen[3].instance # seen[2].instance
    /\ seen[3].source = seen[2].source
    /\ seen[1].commands # <<>> /\ seen[1].errors # <<>> /\ seen[1].warnings # <<>>
    /\ seen[2].commands # <<>> /\ seen[2].errors # <<>> /\ seen[2].warnings # <<>>

\* the COMMAND_START tokens of the stream
MarkerTokens == {i \in DOMAIN tokens : tokens[i].type = "COMMAND_START"}

\* C13 (Node positions).  Every element of the command list has the
\* position of a command marker of the stream, and the marker offsets grow
\* strictly along the list.
NodePositions ==
    Returned =>
        /\ \A k \in DOMAIN LastDoc.commands :
               /\ "position" \in DOMAIN LastDoc.commands[k]
               /\ \E i \in MarkerTokens :
                      LastDoc.commands[k].position = tokens[i].position
        /\ \A k \in 1..(Len(LastDoc.commands) - 1) :
               LastDoc.commands[k].position.offset
                   < LastDoc.commands[k + 1].position.offset

\* the nodes of a Document that have the given type
NodesOfType(doc, type) ==
    {k \in DOMAIN doc.commands : typeOf(doc.commands[k]) = type}

\* C14 (Derived metadata).  labelWidth is undefined exactly when the command
\* list has no FIELD_ORIGIN node and is otherwise the greatest x of these
\* nodes plus 100; labelLength is undefined exactly when the list has no
\* LABEL_LENGTH node and is otherwise the length of the first of them.
DerivedMetadata ==
    \A d \in DOMAIN seen :
        LET doc     == seen[d]
            origins == NodesOfType(doc, "FIELD_ORIGIN")
            lengths == NodesOfType(doc, "LABEL_LENGTH")
        IN  /\ (doc.labelWidth = <<>>) <=> (origins = {})
            /\ origins # {} =>
                   /\ \E k \in origins : doc.labelWidth = <<doc.commands[k].x + 100>>
                   /\ \A k \in origins : doc.commands[k].x + 100 <= doc.labelWidth[1]
            /\ (doc.labelLength = <<>>) <=> (lengths = {})
            /\ lengths # {} =>
                   \E k \in lengths :
                       /\ \A j \in lengths : k <= j
                       /\ doc.labelLength = <<doc.commands[k].length>>

\* a call returned a Document with two LABEL_LENGTH nodes of different
\* lengths and no FIELD_ORIGIN node
DerivedMetadataWitness ==
    /\ pc = "idle"
    /\ seen # <<>>
    /\ \E j, k \in NodesOfType(seen[1], "LABEL_LENGTH") :
           j < k /\ seen[1].commands[j].length # seen[1].commands[k].length
    /\ seen[1].labelWidth = <<>>

\* the maximal run of command-code characters of the source from offset o
CodeRun(o) ==
    LET n == CHOOSE m \in 0..(Len(source) - o) :
                 /\ \A j \in 1..m : isCommandChar(source[o + j])
                 /\ o + m + 1 > Len(source) \/ ~isCommandChar(source[o + m + 1])
    IN  SubSeq(source, o + 1, o + n)

\* the lexical errors recorded so far by the running tokenizer
LexicalErrors == IF tkErrors = 0 THEN <<>> ELSE heap[tkErrors]

\* a step of the top-level scan at a '^' at offset position, up to the end of
\* tokenizeCommand: the marker and the maximal code run are consumed; with a
\* code the two tokens are emitted and no error recorded, without one no
\* token is emitted, one error is recorded and the scan goes on after the '^'
CommandScanStep ==
    /\ (pc = "scan" /\ position < Len(source) /\ source[position + 1] = "^") =>
           /\ pc' = "cmdcode"
           /\ startPos'.offset = position
           /\ position' = position + 1
           /\ tkTokens' = tkTokens
           /\ heap' = heap
    /\ (pc = "cmdcode" /\ pc' # "cmdcode") =>
           LET run == CodeRun(startPos.offset + 1)
           IN  /\ position' = startPos.offset + 1 + Len(run)
               /\ IF run # <<>>
                  THEN /\ Len(tkTokens') = Len(tkTokens) + 2
                       /\ tkTokens'[Len(tkTokens) + 1].type = "COMMAND_START"
                       /\ tkTokens'[Len(tkTokens) + 1].position.offset = startPos.offset
                       /\ tkTokens'[Len(tkTokens) + 2].type = "COMMAND_CODE"
                       /\ tkTokens'[Len(tkTokens) + 2].value = run
                       /\ SubSeq(tkTokens', 1, Len(tkTokens)) = tkTokens
                       /\ heap' = heap
                  ELSE /\ tkTokens' = tkTokens
                       /\ Len(heap'[tkErrors]) = Len(heap[tkErrors]) + 1
                       /\ heap'[tkErrors][Len(heap'[tkErrors])].code = "TOKENIZER_ERROR"
                       /\ pc' = "scan"

\* every COMMAND_START token is directly followed by a COMMAND_CODE token
\* with a non-empty value
MarkerHasCode(toks) ==
    \A i \in DOMAIN toks :
        toks[i].type = "COMMAND_START" =>
            /\ i < Len(toks)
            /\ toks[i + 1].type = "COMMAND_CODE"
            /\ toks[i + 1].value # <<>>

ParameterScanStep ==
    /\ (pc \in {"params", "param"} /\ position' # position) =>
           /\ position' = position + 1
           /\ source[position + 1] \notin {"^", "\n"}
    /\ (pc = "params" /\ pc' = "scan") =>
           /\ position' = position
           /\ position < Len(source) => source[position + 1] \in {"^", "\n"}

\* no token of the stream stands at a ',', and every PARAMETER token holds
\* the non-empty text found at its offset, free of separators
ParameterTokens(toks) ==
    \A i \in DOMAIN toks :
        /\ toks[i].type # "EOF" => source[toks[i].position.offset + 1] # ","
        /\ toks[i].type = "PARAMETER" =>
               /\ toks[i].value # <<>>
               /\ \A j \in DOMAIN toks[i].value :
                      /\ toks[i].value[j] \notin {",", "^", "\n"}
                      /\ ~isWhitespace(toks[i].value[j])
               /\ toks[i].value = SubSeq(source, toks[i].position.offset + 1,
                                         toks[i].position.offset + Len(toks[i].value))

\* C16 (Parameter mode).  After a command code the scan goes up to, not
\* past, the next '^' or newline; no token stands at a ','; every PARAMETER
\* token has a non-empty value without ',', '^', newline or whitespace, at
\* the position of its first character; consecutive commas give no token.
ParameterMode ==
    /\ [][ParameterScanStep]_vars
    /\ []ParameterTokens(tkTokens)

\* a stream with a parameter that follows two consecutive commas
ParameterModeWitness ==
    /\ pc = "parse"
    /\ \E i \in DOMAIN tokens :
           /\ tokens[i].type = "PARAMETER"
           /\ tokens[i].position.offset >= 2
           /\ source[tokens[i].position.offset] = ","
           /\ source[tokens[i].position.offset - 1] = ","

\* the source holds the two characters a, b at offset o
TwoCharsAt(o, a, b) ==
    o + 2 <= Len(source) /\ source[o + 1] = a /\ source[o + 2] = b

\* the offset at which the line comment opened at offset o ends: the next
\* newline, or the end of the source
LineCommentEnd(o) ==
    CHOOSE p \in (o + 2)..Len(source) :
        /\ p = Len(source) \/ source[p + 1] = "\n"
        /\ \A q \in (o + 2)..(p - 1) : source[q + 1] # "\n"

\* the block comment opened at offset o has a closing */
BlockCommentCloses(o) == \E q \in (o + 2)..Len(source) : TwoCharsAt(q, "*", "/")

\* the offset after the closing */ of the block comment opened at offset o
BlockCommentEnd(o) ==
    CHOOSE p \in (o + 4)..Len(source) :
        /\ TwoCharsAt(p - 2, "*", "/")
        /\ \A q \in (o + 2)..(p - 3) : ~TwoCharsAt(q, "*", "/")

\* a step of the top-level scan at // or at a closed /* starts a comment;
\* no token and no error is produced inside it; when it ends, one COMMENT
\* token holds the text from the opener up to the newline (excluded) or
\* through the closing */, and the scan resumes there
CommentStep ==
    /\ (/\ pc = "scan"
        /\ \/ TwoCharsAt(position, "/", "/")
           \/ TwoCharsAt(position, "/", "*") /\ BlockCommentCloses(position)) =>
           /\ pc' \in {"lineComment", "blockComment"}
           /\ startPos'.offset = position
           /\ tkTokens' = tkTokens
           /\ heap' = heap
    /\ (pc \in {"lineComment", "blockComment"} /\ pc' = pc) =>
           tkTokens' = tkTokens /\ heap' = heap
    /\ (/\ pc \in {"lineComment", "blockComment"}
        /\ pc' = "scan"
        /\ \/ TwoCharsAt(startPos.offset, "/", "/")
           \/ TwoCharsAt(startPos.offset, "/", "*") /\ BlockCommentCloses(startPos.offset)) =>
           LET o    == startPos.offset
               stop == IF TwoCharsAt(o, "/", "/") THEN LineCommentEnd(o)
                       ELSE BlockCommentEnd(o)
           IN  /\ tkTokens' = Append(tkTokens,
                                     [type |-> "COMMENT", value |-> SubSeq(source, o + 1, stop),
                                      position |-> startPos, raw |-> SubSeq(source, o + 1, stop)])
               /\ position' = stop
               /\ heap' = heap

\* C17 (Comments).  At // the top-level scan emits one COMMENT token with
\* the text up to the next newline, at /* one COMMENT token with the text
\* through the closing */ and resumes after it; no lexical error and no
\* other token comes from inside the comment.
CommentRecognition == [][CommentStep]_vars

\* the top-level scan stands at a character that is no '^', no newline, no
\* whitespace and not the first character of a // or /* opener
AtUnexpectedCharacter ==
    /\ pc = "scan"
    /\ position < Len(source)
    /\ source[position + 1] \notin {"^", "\n"}
    /\ ~isWhitespace(source[position + 1])
    /\ ~TwoCharsAt(position, "/", "/")
    /\ ~TwoCharsAt(position, "/", "*")

\* the step records one TOKENIZER_ERROR, emits no token and consumes one
\* character, staying in the top-level scan
RecoversByOne ==
    /\ position' = position + 1
    /\ pc' = "scan"
    /\ tkTokens' = tkTokens
    /\ Len(heap'[tkErrors]) = Len(heap[tkErrors]) + 1
    /\ heap'[tkErrors][Len(heap'[tkErrors])].code = "TOKENIZER_ERROR"
    /\ SubSeq(heap'[tkErrors], 1, Len(heap[tkErrors])) = heap[tkErrors]

\* C18 (Lexical recovery).  At top level every character that is no '^', no
\* newline, no whitespace and not the first character of a // or /* opener
\* records exactly one TOKENIZER_ERROR, emits no token and advances the scan
\* by exactly one character.
LexicalRecovery == [][AtUnexpectedCharacter => RecoversByOne]_vars

\* the number of newline characters of the source before offset o
NewlinesBefore(o) ==
    Cardinality({q \in 1..Len(source) : q <= o /\ source[q] = "\n"})

\* a step of the top-level scan at a newline emits one NEWLINE token,
\* increments the line counter and resets the column to 1
NewlineStep ==
    (pc = "scan" /\ position < Len(source) /\ source[position + 1] = "\n") =>
        /\ Len(tkTokens') = Len(tkTokens) + 1
        /\ tkTokens'[Len(tkTokens')].type = "NEWLINE"
        /\ tkTokens'[Len(tkTokens')].position.offset = position
        /\ line' = line + 1
        /\ column' = 1
        /\ position' = position + 1

\* the line of every token is 1 plus the newlines before its offset
LinesCounted ==
    \A i \in DOMAIN tkTokens :
        tkTokens[i].position.line = 1 + NewlinesBefore(tkTokens[i].position.offset)

\* C19 (Newline tracking).  Every newline met outside a comment emits one
\* NEWLINE token, increments the line counter and resets the column to 1;
\* every token's line is 1 plus the number of newline characters of the
\* source before the token's offset.
NewlineTracking == [][NewlineStep]_vars /\ []LinesCounted

BarcodeCodes == {<<"B","C">>, <<"B","3">>, <<"B","N">>}

\* the index of the token right after the parameters of code token i
AfterParameters(i) == i + Len(FollowingParameters(i)) + 1

\* the token at index n is a command marker whose code is FD
FieldDataAt(n) ==
    /\ tokens[n].type = "COMMAND_START"
    /\ tokens[n + 1].value = <<"F","D">>

\* the dispatch loop stands at a barcode command: the step appends a BARCODE
\* node and leaves the cursor after the parameters, or, when an FD follows
\* them, after the FD's code and first parameter
BarcodeStep ==
    (/\ pc = "parse"
     /\ tokens[current + 1].type = "COMMAND_START"
     /\ tokens[current + 2].value \in BarcodeCodes) =>
        LET n    == AfterParameters(current + 2)
            node == commands'[Len(commands')]
        IN  /\ Len(commands') = Len(commands) + 1
            /\ typeOf(node) = "BARCODE"
            /\ node.position = tokens[current + 1].position
            /\ IF FieldDataAt(n)
               THEN IF tokens[n + 2].type = "PARAMETER"
                    THEN node.data = tokens[n + 2].value /\ current' = n + 2
                    ELSE node.data = <<>> /\ current' = n + 1
               ELSE node.data = <<>> /\ current' = n - 1

\* in the Document no node stands at the marker of an FD that directly
\* follows the parameters of a barcode command
NoNodeForPayload ==
    Returned =>
        \A i \in CodeTokens(BarcodeCodes) :
            FieldDataAt(AfterParameters(i)) =>
                NodesAt(LastDoc, AfterParameters(i) + 1) = {}

FieldStopAt(n) ==
    /\ tokens[n].type = "COMMAND_START"
    /\ tokens[n + 1].value = <<"F","S">>

\* the index of the token after the content of the FD whose code is token i
AfterContent(i) == IF tokens[i + 1].type = "PARAMETER" THEN i + 2 ELSE i + 1

\* the dispatch loop stands at an FD command: the step appends a FIELD_DATA
\* node whose content is the parameter directly after the code (or empty);
\* when the marker of an FS follows, it and its code are consumed and
\* stopCommand is true, otherwise the cursor stays on the token that follows
FieldDataStep ==
    (/\ pc = "parse"
     /\ tokens[current + 1].type = "COMMAND_START"
     /\ tokens[current + 2].value = <<"F","D">>) =>
        LET i    == current + 2
            n    == AfterContent(i)
            node == commands'[Len(commands')]
        IN  /\ Len(commands') = Len(commands) + 1
            /\ typeOf(node) = "FIELD_DATA"
            /\ node.position = tokens[current + 1].position
            /\ node.content = IF tokens[i + 1].type = "PARAMETER"
                              THEN tokens[i + 1].value ELSE <<>>
            /\ IF FieldStopAt(n)
               THEN node.stopCommand /\ current' = n + 1
               ELSE ~node.stopCommand /\ current' = n - 1

\* in the Document no node stands at the marker of an FS that an FD node
\* took as its stop
NoNodeForStop ==
    Returned =>
        \A i \in CodeTokens({<<"F","D">>}) :
            (/\ FieldStopAt(AfterContent(i))
             /\ \E k \in NodesAt(LastDoc, i) : typeOf(LastDoc.commands[k]) = "FIELD_DATA") =>
                NodesAt(LastDoc, AfterContent(i) + 1) = {}

\* C21 (FD grammar).  An FD node's content is the value of the parameter
\* token directly after the FD code, or the empty string; when the token
\* after that is the marker of an FS, marker and code are consumed,
\* stopCommand is true and no node is emitted for the FS; otherwise
\* stopCommand is false and the cursor is left on that token.
FieldDataGrammar == [][FieldDataStep]_vars /\ []NoNodeForStop

\* an FD with content took the FS that follows it as its stop, and an FD
\* without a following FS was parsed too
FieldDataGrammarWitness ==
    /\ Returned
    /\ \E i \in CodeTokens({<<"F","D">>}) :
           /\ tokens[i + 1].type = "PARAMETER"
           /\ FieldStopAt(i + 2)
           /\ \E k \in NodesAt(LastDoc, i) :
                  /\ LastDoc.commands[k].stopCommand
                  /\ LastDoc.commands[k].content = tokens[i + 1].value

\* a parameter that is a base-10 integer: digits only, after at most one sign
IsInteger(parameter) ==
    LET signed == parameter # <<>> /\ Head(parameter) \in {"-", "+"}
        digits == IF signed THEN Tail(parameter) ELSE parameter
    IN  digits # <<>> /\ \A j \in DOMAIN digits : digits[j] \in DigitChars

\* the number an integer parameter denotes
IntegerValue(parameter) ==
    IF Head(parameter) = "-" THEN 0 - DigitsValue(Tail(parameter))
    ELSE IF Head(parameter) = "+" THEN DigitsValue(Tail(parameter))
    ELSE DigitsValue(parameter)

\* the integer fields of a node type: field name, position of its parameter
\* (from 1) and the rule's default
IntegerFields(type) ==
    CASE type = "LABEL_LENGTH"   -> {<<"length", 1, 100>>}
      [] type = "LABEL_HOME"     -> {<<"x", 1, 0>>, <<"y", 2, 0>>}
      [] type = "FIELD_ORIGIN"   -> {<<"x", 1, 0>>, <<"y", 2, 0>>}
      [] type = "GRAPHIC_BOX"    -> {<<"width", 1, 1>>, <<"height", 2, 1>>,
                                     <<"thickness", 3, 1>>}
      [] type = "BARCODE"        -> {<<"height", 2, 10>>}
      [] type = "FONT_SELECTION" -> {<<"height", 3, 10>>}
      [] OTHER                   -> {}

\* C22 (integer parsing).  Every integer field of a node equals the base-10
\* value of its positional parameter when that parameter is a base-10
\* integer, and the rule's default when the parameter is absent or is no
\* integer, a parameter that only starts with digits included.
IntegerOrDefault ==
    Returned =>
        \A k \in DOMAIN LastDoc.commands :
            LET node == LastDoc.commands[k]
            IN  \A f \in IntegerFields(typeOf(node)) :
                    node[f[1]] =
                        IF /\ f[2] <= Len(node.parameters)
                           /\ IsInteger(node.parameters[f[2]])
                        THEN IntegerValue(node.parameters[f[2]])
                        ELSE f[3]

\* in the dispatch loop parseCommand never throws from the cursor, so the
\* catch with synchronize is not entered
ConsumeSucceeds ==
    (pc = "parse" /\ ~isAtEnd(current)) => ~parseCommand(current).thrown

MissingParameterMessages ==
    { <<"LH command requires x and y parameters">>,
      <<"FO command requires x and y parameters">> }

\* the errors of a list: lexical ones first, then missing-parameter errors of
\* LH and FO, and none about a missing command code
DiagnosticsShape(errs) ==
    /\ \A e \in DOMAIN errs :
           /\ errs[e].code \in {"TOKENIZER_ERROR", "PARSER_ERROR"}
           /\ errs[e].code = "PARSER_ERROR" =>
                  errs[e].message \in MissingParameterMessages
           /\ errs[e].message # <<"Expected command code after ^">>
    /\ \A e1, e2 \in DOMAIN errs :
           (e1 < e2 /\ errs[e1].code = "PARSER_ERROR") =>
               errs[e2].code = "PARSER_ERROR"

\* C23 (consume never fails).  Since every COMMAND_START is followed by a
\* COMMAND_CODE, parseCommand never throws and synchronize never runs; the
\* error 'Expected command code after ^' is never recorded, every
\* PARSER_ERROR of a Document is a missing-parameter error of LH or FO, and
\* the other errors are TOKENIZER_ERROR entries that come before them.
ConsumeNeverFails ==
    /\ ConsumeSucceeds
    /\ pc = "parse" => DiagnosticsShape(heap[errors])
    /\ Returned => DiagnosticsShape(LastDoc.errors)

\* a Document with a lexical error before a missing-parameter error
ConsumeNeverFailsWitness ==
    /\ Returned
    /\ \E e1, e2 \in DOMAIN LastDoc.errors :
           /\ e1 < e2
           /\ LastDoc.errors[e1].code = "TOKENIZER_ERROR"
           /\ LastDoc.errors[e2].code = "PARSER_ERROR"
    /\ \E i \in DOMAIN tokens : tokens[i].type = "COMMAND_START"

\* C24 (offsets within the source).  The scan position never moves past the
\* end of the input: every token's offset lies between 0 and the length of
\* the source, and the offset of the EOF token is the length of the source.
OffsetsWithinSource ==
    /\ position <= Len(source)
    /\ \A i \in DOMAIN tkTokens :
           /\ tkTokens[i].position.offset \in 0..Len(source)
           /\ tkTokens[i].type = "EOF" => tkTokens[i].position.offset = Len(source)

\* the fields a rule reads from single parameters: field name, position of
\* the parameter (from 1) and the value the rule gives the field for it
PositionalFields(node, params) ==
    LET type == typeOf(node)
        int  == {<<f[1], parseNumberParameter(Param(params, f[2] - 1), f[3])>> :
                     f \in IntegerFields(type)}
    IN  CASE type = "BARCODE" ->
                 int \cup
                 { <<"orientation", parseOrientation(Param(params, 0))>>,
                   <<"printInterpretationLine",
                     parseBooleanParameter(Param(params, 2), TRUE)>>,
                   <<"printAboveCode",
                     parseBooleanParameter(Param(params, 3), FALSE)>>,
                   <<"mode", Param(params, 4)>> }
          [] type = "GRAPHIC_BOX" ->
                 int \cup {<<"color", IF Param(params, 3) = <<"W">> THEN "W" ELSE "B">>}
          [] type = "FONT_SELECTION" ->
                 int \cup
                 { <<"font", IF Len(params) > 0 THEN params[1] ELSE <<"0">>>>,
                   <<"orientation", parseOrientation(Param(params, 1))>> }
          [] OTHER -> int

\* C25 (positional shift).  For every node of a command parsed with
\* parseParameters the parameters list is the sequence of PARAMETER tokens
\* that follow the code, none of them empty, and the k-th typed field is
\* derived from the k-th of these tokens, whatever comma slots the source
\* left empty.
PositionalFill ==
    /\ \A i \in DOMAIN tkTokens :
           tkTokens[i].type = "PARAMETER" => tkTokens[i].value # <<>>
    /\ Returned =>
           \A i \in CodeTokens({tokens[j].value : j \in DOMAIN tokens}) :
               \A k \in NodesAt(LastDoc, i) :
                   LET node   == LastDoc.commands[k]
                       params == FollowingParameters(i)
                   IN  typeOf(node) # "FIELD_DATA" =>
                           /\ node.parameters = params
                           /\ \A j \in DOMAIN params : params[j] # <<>>
                           /\ \A f \in PositionalFields(node, params) :
                                  node[f[1]] = f[2]

\* an FO whose only parameter stands after an empty comma slot: x is its
\* value, y is 0 and the missing-parameter error is recorded
PositionalFillWitness ==
    /\ Returned
    /\ \E i \in CodeTokens({<<"F","O">>}) :
           /\ Len(FollowingParameters(i)) = 1
           /\ \E o \in 0..(tokens[i + 1].position.offset - 1) :
                  o > tokens[i].position.offset /\ charAt(o) = ","
           /\ \E k \in NodesAt(LastDoc, i) :
                  /\ LastDoc.commands[k].x = parseInt(tokens[i + 1].value)[1]
                  /\ LastDoc.commands[k].x # 0
                  /\ LastDoc.commands[k].y = 0
                  /\ Cardinality(StructuralErrorsAt(LastDoc,
                                                    LastDoc.commands[k].position)) = 1

====
